---------------------------- MODULE Spec2Model ----------------------------
(***************************************************************************)
(* gcp-release-digest: the rate-limited notifier (pkg/notify/notify.go)    *)
(* and the digest orchestrator (digest.go) as state machines.              *)
(*                                                                         *)
(* Time is discrete.  The limiter only ever compares now - lastReset with  *)
(* duration, so the model keeps that difference, saturated at duration.    *)
(***************************************************************************)
EXTENDS Integers, Sequences, FiniteSets, TLC

(* ---------------------------- bounds ----------------------------------- *)

\* newRateLimiter(50, time.Minute): the ceiling, scaled down.
limit == 2

\* The window, in ticks of the model's clock (time.Minute, scaled down).
duration == 2

\* Goroutines calling SendToWebhook concurrently (concurrent invocations of
\* the HTTP function share the package-level webhookRateLimiter).
NumCallers == 2

\* Rows of the warehouse table.
MaxNotes == 3

\* External calls that fail in one invocation.
MaxFaults == 2

\* The longest lookback window (CADENCE, in days) given to the query adapters.
MaxLookback == 2

(* ---------------------------- state ------------------------------------ *)

VARIABLES
    tokens,     \* number of permits buffered in the channel rl.tokens now names
    closed,     \* TRUE while rl.tokens names a channel that close() was called on
    elapsed,    \* time.Now().Sub(rl.lastReset), saturated at duration
    mu,         \* rl.mu: 0 when free, else the caller holding it
    apc,        \* per caller: position inside SendToWebhook / acquire / reset
    ref,        \* per caller: the channel its receive operates on
    got,        \* per caller: how its last acquire returned
    recent,     \* ghost: recent[a] = acquires that returned a ticks ago
    env,        \* the environment variables read by digest
    table,      \* rows of the release_notes table: [product, type, age]
    hpc,        \* position of the digest handler
    activeChannels,   \* []Channel built from the non-empty category webhooks
    noActiveChannel,  \* names of the categories without a webhook
    ci,         \* index of the channel being processed (range activeChannels)
    general,    \* TRUE while the handler is in the GENERAL block
    prods,      \* queryProductsbyReleaseType / queryPrducts of the channel
    pi,         \* index of the product being processed (range over prods)
    releaseNotesSlice,  \* the notes fetched for the current product
    summaryResult,      \* the summary returned for the current product
    calls,      \* log of the external calls performed, in order
    faults      \* external calls that have failed so far

limiterVars == <<tokens, closed, elapsed, mu, apc, ref, got, recent>>

digestVars ==
    <<env, table, hpc, activeChannels, noActiveChannel, ci, general, prods, pi,
      releaseNotesSlice, summaryResult, calls, faults>>

vars == <<tokens, closed, elapsed, mu, apc, ref, got, recent,
          env, table, hpc, activeChannels, noActiveChannel, ci, general, prods,
          pi, releaseNotesSlice, summaryResult, calls, faults>>

\* Caller 0 is the orchestrator's goroutine; 1..NumCallers are other goroutines.
Callers == 1..NumCallers

AllCallers == 0..NumCallers

Ages == 0..(duration - 1)

Min(a, b) == IF a < b THEN a ELSE b

RECURSIVE SumAges(_, _)
SumAges(f, a) == IF a < 0 THEN 0 ELSE f[a] + SumAges(f, a - 1)

\* Acquires that returned within the rolling window ending now.
InWindow == SumAges(recent, duration - 1)

(* ---------------------------- rate limiter ------------------------------ *)

\* newRateLimiter: make(chan, limit); lastReset = now; rl.reset().
LimiterInit ==
    /\ tokens = limit
    /\ closed = FALSE
    /\ elapsed = 0
    /\ mu = 0
    /\ apc = [p \in AllCallers |-> "idle"]
    /\ ref = [p \in AllCallers |-> "none"]
    /\ got = [p \in AllCallers |-> "none"]
    /\ recent = [a \in Ages |-> 0]

\* now.Sub(rl.lastReset) >= rl.duration
WindowElapsed == elapsed >= duration

\* The unsynchronised read of rl.lastReset in acquire races with the write in
\* reset (which holds rl.mu; acquire does not): while a reset is about to store
\* lastReset, the comparison may come out either way.
RacingStamp(p) == mu # 0 /\ mu # p /\ apc[mu] = "stamp"

\* acquire, lines 39-42: read the clock and decide whether to reset.
AcquireCheck(p) ==
    /\ apc[p] = "check"
    /\ \E e \in BOOLEAN :
          /\ (e = WindowElapsed) \/ RacingStamp(p)
          /\ apc' = [apc EXCEPT ![p] = IF e THEN "lock" ELSE "load"]
    /\ UNCHANGED <<tokens, closed, elapsed, mu, ref, got>>

\* reset, line 27: rl.mu.Lock()
ResetLock(p) ==
    /\ apc[p] = "lock"
    /\ mu = 0
    /\ mu' = p
    /\ apc' = [apc EXCEPT ![p] = "close"]
    /\ UNCHANGED <<tokens, closed, elapsed, ref, got>>

\* reset, line 30: close(rl.tokens)
ResetClose(p) ==
    /\ apc[p] = "close"
    /\ closed' = TRUE
    /\ apc' = [apc EXCEPT ![p] = "make"]
    /\ UNCHANGED <<tokens, elapsed, mu, ref, got>>

\* reset, line 31: rl.tokens = make(chan struct{}, rl.limit).  Every receive
\* that already evaluated rl.tokens keeps the replaced (closed) channel:
\* "drained" when it was replaced with no permit left in it, else "old".
ResetMake(p) ==
    /\ apc[p] = "make"
    /\ tokens' = 0
    /\ closed' = FALSE
    /\ ref' = [q \in AllCallers |->
                IF ref[q] = "cur" THEN (IF tokens = 0 THEN "drained" ELSE "old")
                ELSE ref[q]]
    /\ apc' = [apc EXCEPT ![p] = "fill"]
    /\ UNCHANGED <<elapsed, mu, got>>

\* Permits in the pool after the fill loop of reset has sent rl.limit values.
Refilled(t) == Min(t + limit, limit)

\* reset, lines 32-34: the fill loop.
ResetFill(p) ==
    /\ apc[p] = "fill"
    /\ tokens' = Refilled(tokens)
    /\ apc' = [apc EXCEPT ![p] = "stamp"]
    /\ UNCHANGED <<closed, elapsed, mu, ref, got>>

\* reset, line 35: rl.lastReset = time.Now()
ResetStamp(p) ==
    /\ apc[p] = "stamp"
    /\ elapsed' = 0
    /\ apc' = [apc EXCEPT ![p] = "unlock"]
    /\ UNCHANGED <<tokens, closed, mu, ref, got>>

\* reset, line 28: the deferred rl.mu.Unlock()
ResetUnlock(p) ==
    /\ apc[p] = "unlock"
    /\ mu' = 0
    /\ apc' = [apc EXCEPT ![p] = "load"]
    /\ UNCHANGED <<tokens, closed, elapsed, ref, got>>

\* acquire, line 43: the operand rl.tokens of the receive is evaluated.
AcquireLoad(p) ==
    /\ apc[p] = "load"
    /\ ref' = [ref EXCEPT ![p] = "cur"]
    /\ apc' = [apc EXCEPT ![p] = "recv"]
    /\ UNCHANGED <<tokens, closed, elapsed, mu, got>>

\* A receive on the channel c can complete: a buffered value, or c is closed.
CanReceive(p) ==
    \/ ref[p] \in {"old", "drained"}
    \/ ref[p] = "cur" /\ (tokens > 0 \/ closed)

\* What the receive of p yields: a permit of the pool rl.tokens names
\* ("stale" when reset has closed that pool and is about to replace it), what
\* a replaced pool still held ("leftover": a permit buffered in it, or the
\* zero value once those are gone), or the zero value of a closed, empty
\* channel ("closed").
Received(p) ==
    IF ref[p] = "cur" /\ tokens > 0 /\ ~closed THEN "permit"
    ELSE IF ref[p] = "cur" /\ tokens > 0 THEN "stale"
    ELSE IF ref[p] = "old" THEN "leftover"
    ELSE "closed"

\* acquire, line 43: <-rl.tokens completes and acquire returns.
AcquireRecv(p) ==
    /\ apc[p] = "recv"
    /\ CanReceive(p)
    /\ got' = [got EXCEPT ![p] = Received(p)]
    /\ tokens' = IF ref[p] = "cur" /\ tokens > 0 THEN tokens - 1 ELSE tokens
    /\ ref' = [ref EXCEPT ![p] = "none"]
    /\ apc' = [apc EXCEPT ![p] = "acquired"]
    /\ UNCHANGED <<closed, elapsed, mu>>

\* The clock advances by one tick.
Tick ==
    /\ elapsed' = Min(elapsed + 1, duration)
    /\ recent' = [a \in Ages |-> IF a = 0 THEN 0 ELSE recent[a - 1]]
    /\ UNCHANGED <<tokens, closed, mu, apc, ref, got>>

\* One step of acquire (with the reset it may call) by caller p.
AcquireStep(p) ==
    \/ AcquireCheck(p)
    \/ ResetLock(p)
    \/ ResetClose(p)
    \/ ResetMake(p)
    \/ ResetFill(p)
    \/ ResetStamp(p)
    \/ ResetUnlock(p)
    \/ AcquireLoad(p)
    \/ AcquireRecv(p)

(* ------------- concurrent callers of SendToWebhook ---------------------- *)

\* SendToWebhook, line 85: webhookRateLimiter.acquire() is entered.
Call(p) ==
    /\ apc[p] = "idle"
    /\ apc' = [apc EXCEPT ![p] = "check"]
    /\ UNCHANGED <<tokens, closed, elapsed, mu, ref, got>>

\* SendToWebhook, lines 88-91: the message is posted and the call returns.
Return(p) ==
    /\ apc[p] = "acquired"
    /\ apc' = [apc EXCEPT ![p] = "idle"]
    /\ got' = [got EXCEPT ![p] = "none"]
    /\ UNCHANGED <<tokens, closed, elapsed, mu, ref>>

\* Ghost: an acquire of caller p that returns in this step is counted at age 0.
Observe(p) ==
    recent' = IF apc[p] = "recv" /\ apc'[p] = "acquired"
              THEN [recent EXCEPT ![0] = Min(recent[0] + 1, limit + 1)]
              ELSE recent

\* A goroutine other than the handler's calls SendToWebhook.
CallerEnter(p) == Call(p) /\ UNCHANGED recent /\ UNCHANGED digestVars

\* It takes one step of acquire.
CallerAcquire(p) == AcquireStep(p) /\ Observe(p) /\ UNCHANGED digestVars

\* It posts its message and returns from SendToWebhook.
CallerReturn(p) == Return(p) /\ UNCHANGED recent /\ UNCHANGED digestVars

\* Time passes while those goroutines run.
LimiterTick == Tick /\ UNCHANGED digestVars

LimiterNext ==
    \/ \E p \in Callers : CallerEnter(p)
    \/ \E p \in Callers : CallerAcquire(p)
    \/ \E p \in Callers : CallerReturn(p)
    \/ LimiterTick

(* ---------------------------- warehouse --------------------------------- *)

\* digest.go line 105: the fixed category names, in the order of `channels`.
\* The list is in ascending order, so a name's index is its sort rank.
channelNames ==
    <<"BREAKING_CHANGE", "DEPRECATION", "FEATURE", "FIX", "ISSUE", "LIBRARIES",
      "NON_BREAKING_CHANGE", "SECURITY_BULLETIN", "SERVICE_ANNOUNCEMENT">>

ChannelIdx == 1..Len(channelNames)

\* The release_note_type values that occur in the modelled table.
NoteTypes == {"BREAKING_CHANGE", "FEATURE"}

\* The product names in the table; product k is the k-th name in ascending order.
Products == {1, 2}

\* published_at, as the number of days before CURRENT_DATE().
NoteAges == {1, 2}

NoteUniverse == [product : Products, type : NoteTypes, age : NoteAges]

Tables == {t \in SUBSET NoteUniverse : Cardinality(t) <= MaxNotes}

\* The elements of a finite set of integers as an ascending sequence
\* (ORDER BY product_name ASC).
RECURSIVE Ascending(_)
Ascending(S) ==
    IF S = {} THEN <<>>
    ELSE LET m == CHOOSE x \in S : \A y \in S : x <= y
         IN  <<m>> \o Ascending(S \ {m})

\* InLookback with > in place of >=: the note of exactly `days` days ago is out.
InLookbackStrict(n, days) == n.age < days

\* published_at >= DATE_SUB(CURRENT_DATE(), INTERVAL cadence DAY)
InLookback(n, days) == n.age <= days

\* GetProductsbyReleaseType without release_note_type = @release_note_type.
GetProductsbyReleaseTypeAnyType(releaseNotebyType, days) ==
    Ascending({n.product : n \in {m \in table : InLookback(m, days)}})

\* products.GetProductsbyReleaseType: SELECT DISTINCT product_name ... WHERE
\* release_note_type = @release_note_type ORDER BY product_name ASC.
GetProductsbyReleaseType(releaseNotebyType, days) ==
    Ascending({n.product : n \in
        {m \in table : InLookback(m, days) /\ m.type = releaseNotebyType}})

\* GetProducts that drops the products that also have an in-window note of a
\* type outside `types`.
GetProductsOnlyOfTypes(types, days) ==
    Ascending({n.product : n \in
        {m \in table : /\ InLookback(m, days)
                       /\ m.type \in types
                       /\ \A o \in table :
                            (InLookback(o, days) /\ o.product = m.product)
                               => o.type \in types}})

\* GetProducts that applies no category filter when `types` is empty.
GetProductsEmptyMeansAll(types, days) ==
    Ascending({n.product : n \in
        {m \in table : InLookback(m, days) /\ (types = {} \/ m.type \in types)}})

\* products.GetProducts: ... WHERE release_note_type IN UNNEST(@noActiveChannel).
GetProducts(types, days) ==
    Ascending({n.product : n \in
        {m \in table : InLookback(m, days) /\ m.type \in types}})

\* releasenotes.GetReleaseNotesbyType: the (type, description) groups of one
\* product and one type; a row of the model stands for its description.
GetReleaseNotesbyType(product, releaseNotebyType, days) ==
    {m \in table : /\ InLookback(m, days)
                   /\ m.product = product
                   /\ m.type = releaseNotebyType}

\* releasenotes.GetReleaseNotes: ... release_note_type IN UNNEST(@noActiveChannel).
GetReleaseNotes(product, types, days) ==
    {m \in table : /\ InLookback(m, days)
                   /\ m.product = product
                   /\ m.type \in types}

(* ---------------------------- configuration ----------------------------- *)

Digits == {"0", "1", "2", "3", "4", "5", "6", "7", "8", "9"}

DigitVal(c) ==
    CASE c = "0" -> 0 [] c = "1" -> 1 [] c = "2" -> 2 [] c = "3" -> 3
      [] c = "4" -> 4 [] c = "5" -> 5 [] c = "6" -> 6 [] c = "7" -> 7
      [] c = "8" -> 8 [] c = "9" -> 9

RECURSIVE DecVal(_)
DecVal(s) ==
    IF s = <<>> THEN 0
    ELSE 10 * DecVal(SubSeq(s, 1, Len(s) - 1)) + DigitVal(s[Len(s)])

\* strconv.Atoi on a string given as its sequence of characters: an optional
\* sign followed by at least one decimal digit.
Atoi(s) ==
    LET signed == s # <<>> /\ s[1] \in {"+", "-"}
        body   == IF signed THEN Tail(s) ELSE s
    IN  IF body = <<>> \/ \E i \in 1..Len(body) : body[i] \notin Digits
        THEN [ok |-> FALSE, val |-> 0]
        ELSE [ok |-> TRUE,
              val |-> IF signed /\ s[1] = "-" THEN 0 - DecVal(body) ELSE DecVal(body)]

\* Values of CADENCE: unset, two that are no integer, and a lookback of one day.
Cadences == {<<>>, <<"x">>, <<"1">>, <<"1", "x">>}

\* The webhook URL a category's environment variable holds when it is set.
channelURLs ==
    <<"https://hook/BREAKING_CHANGE", "https://hook/DEPRECATION",
      "https://hook/FEATURE", "https://hook/FIX", "https://hook/ISSUE",
      "https://hook/LIBRARIES", "https://hook/NON_BREAKING_CHANGE",
      "https://hook/SECURITY_BULLETIN", "https://hook/SERVICE_ANNOUNCEMENT">>

\* The webhook URL GENERAL holds when it is set.
generalURL == "https://hook/GENERAL"

\* Sets of category webhooks that are configured: any of the categories that
\* occur in the table; the other seven variables are empty.
HookSets == SUBSET NoteTypes

\* At most one of PROJECT_ID, MODEL, MODEL_LOCATION is unset.
Mandatory ==
    {m \in [{"PROJECT_ID", "MODEL", "MODEL_LOCATION"} -> {"", "set"}] :
        Cardinality({k \in DOMAIN m : m[k] = ""}) <= 1}

Envs ==
    {[PROJECT_ID |-> m["PROJECT_ID"], MODEL |-> m["MODEL"],
      MODEL_LOCATION |-> m["MODEL_LOCATION"], CADENCE |-> c,
      GENERAL |-> g,
      channels |-> [i \in ChannelIdx |->
                      IF channelNames[i] \in h THEN channelURLs[i] ELSE ""]] :
        m \in Mandatory, c \in Cadences, g \in {"", generalURL}, h \in HookSets}

\* digest.go lines 82-88
atLeastOneSpecificChannelSet == \E i \in ChannelIdx : env.channels[i] # ""

\* EnvRejected without the check of strconv.Atoi's error (lines 51-54).
EnvRejectedAtoiUnchecked ==
    \/ env.PROJECT_ID = ""
    \/ env.MODEL = ""
    \/ env.MODEL_LOCATION = ""
    \/ env.CADENCE = <<>>
    \/ env.GENERAL = "" /\ ~atLeastOneSpecificChannelSet

\* digest.go lines 28-54 and 90-93: every early return of the handler.
EnvRejected ==
    \/ env.PROJECT_ID = ""
    \/ env.MODEL = ""
    \/ env.MODEL_LOCATION = ""
    \/ env.CADENCE = <<>>
    \/ ~Atoi(env.CADENCE).ok
    \/ env.GENERAL = "" /\ ~atLeastOneSpecificChannelSet

cadenceInt == Atoi(env.CADENCE).val

RECURSIVE BuildActive(_)
\* digest.go lines 107-113, the first branch: the channels with a webhook.
BuildActive(i) ==
    IF i > Len(channelNames) THEN <<>>
    ELSE (IF env.channels[i] # ""
          THEN <<[ReleasetNoteType |-> channelNames[i], WebhookURL |-> env.channels[i]]>>
          ELSE <<>>) \o BuildActive(i + 1)

RECURSIVE BuildNoActiveElseless(_)
\* BuildNoActive without its condition: every name is appended.
BuildNoActiveElseless(i) ==
    IF i > Len(channelNames) THEN <<>>
    ELSE <<channelNames[i]>> \o BuildNoActiveElseless(i + 1)

RECURSIVE BuildNoActive(_)
\* digest.go lines 107-113, the second branch: the names without a webhook.
BuildNoActive(i) ==
    IF i > Len(channelNames) THEN <<>>
    ELSE (IF env.channels[i] = "" THEN <<channelNames[i]>> ELSE <<>>)
         \o BuildNoActive(i + 1)

Range(s) == {s[i] : i \in DOMAIN s}

(* ---------------------------- notifier messages ------------------------- *)

\* AnnounceText without the count > 0 test of line 61.
AnnounceTextUnguarded(days, products) ==
    <<"Found release notes for", Len(products), "since", days, products>>

\* notify.Announce lines 57-75: the message text; empty when there is no product.
AnnounceText(days, products) ==
    IF Len(products) > 0
    THEN <<"Found release notes for", Len(products), "since", days, products>>
    ELSE <<>>

\* notify.SendToWebhook line 88
SummaryText(product, summary) == <<product, summary>>

\* notify.ClosingMessage line 100, with anyMsg of digest.go line 170
ClosingText == <<"That's all folks!">>

\* summarize.Summarize: the model's answer is a function of the product and of
\* the notes in the prompt.
Summarize(product, notes) == [of |-> product, from |-> notes]

(* ---------------------------- orchestrator ------------------------------ *)

DigestInit ==
    /\ LimiterInit
    /\ env \in Envs
    /\ table \in Tables
    /\ hpc = "start"
    /\ activeChannels = <<>>
    /\ noActiveChannel = <<>>
    /\ ci = 0
    /\ general = FALSE
    /\ prods = <<>>
    /\ pi = 0
    /\ releaseNotesSlice = {}
    /\ summaryResult = [of |-> 0, from |-> {}]
    /\ calls = <<>>
    /\ faults = 0

\* The outcomes an external call can have.
Outcomes == IF faults < MaxFaults THEN {TRUE, FALSE} ELSE {TRUE}

\* c.ReleasetNoteType of the channel being processed; "GENERAL" in the last block.
CurType == IF general THEN "GENERAL" ELSE activeChannels[ci].ReleasetNoteType

\* CurURL that always posts to the first category channel's webhook.
CurURLFirstChannel ==
    IF general THEN env.GENERAL ELSE activeChannels[1].WebhookURL

\* c.WebhookURL of the channel being processed; chGeneral in the last block.
CurURL == IF general THEN env.GENERAL ELSE activeChannels[ci].WebhookURL

Logged(op, product, ok, text) ==
    Append(calls, [op |-> op, ch |-> CurType, url |-> CurURL,
                   product |-> product, ok |-> ok, text |-> text])

\* ChannelLoop that enters the GENERAL block without the chGeneral != "" test.
ChannelLoopGeneralAlways(active, i, wasGeneral) ==
    IF ~wasGeneral /\ i <= Len(active)
    THEN [pc |-> "products", ci |-> i, general |-> FALSE]
    ELSE IF ~wasGeneral
    THEN [pc |-> "products", ci |-> i, general |-> TRUE]
    ELSE [pc |-> "returned", ci |-> i, general |-> wasGeneral]

\* Where the handler goes once channel i - 1 of `active` is finished: the next
\* element of range activeChannels (line 126), then the GENERAL block (line
\* 180), then the end of the function.
ChannelLoop(active, i, wasGeneral) ==
    IF ~wasGeneral /\ i <= Len(active)
    THEN [pc |-> "products", ci |-> i, general |-> FALSE]
    ELSE IF ~wasGeneral /\ env.GENERAL # ""
    THEN [pc |-> "products", ci |-> i, general |-> TRUE]
    ELSE [pc |-> "returned", ci |-> i, general |-> wasGeneral]

\* ProductLoop that leaves the loop after the first product.
ProductLoopFirstOnly(j, products) ==
    IF j <= Len(products) /\ j <= 1 THEN "notes" ELSE "close"

\* lines 139 and 202: range over the product list.
ProductLoop(j, products) == IF j <= Len(products) THEN "notes" ELSE "close"

\* lines 135-137 and 198-200: err still holds the result of the product query
\* (the result of notify.Announce is discarded), so the branch is never taken.
AfterAnnounce(ok, products) == ProductLoop(1, products)

\* CloseDue without the length test.
CloseAlways(products) == TRUE

\* lines 168 and 231: len(queryProductsbyReleaseType) > 0
CloseDue(products) == Len(products) > 0

\* OnError that gives up on the channel only and goes on to its closing message.
OnErrorSkipChannel == "close"

\* What a failed query, summarization, delivery or close does: log.Fatalf.
OnError == "fatal"

\* digest.go lines 28-113: read the environment, return early or build the lists.
Configure ==
    /\ hpc = "start"
    /\ IF EnvRejected
       THEN /\ hpc' = "aborted"
            /\ UNCHANGED <<activeChannels, noActiveChannel, ci, general>>
       ELSE LET next == ChannelLoop(BuildActive(1), 1, FALSE)
            IN  /\ activeChannels' = BuildActive(1)
                /\ noActiveChannel' = BuildNoActive(1)
                /\ hpc' = next.pc
                /\ ci' = next.ci
                /\ general' = next.general
    /\ UNCHANGED <<env, table, prods, pi, releaseNotesSlice, summaryResult,
                   calls, faults>>
    /\ UNCHANGED limiterVars

\* lines 128-131 and 191-194: the product query of the channel.
QueryProducts ==
    /\ hpc = "products"
    /\ \E ok \in Outcomes :
         LET result == IF general
                       THEN GetProducts(Range(noActiveChannel), cadenceInt)
                       ELSE GetProductsbyReleaseType(CurType, cadenceInt)
         IN  /\ calls' = Logged("products", 0, ok, IF ok THEN result ELSE <<>>)
             /\ prods' = IF ok THEN result ELSE <<>>
             /\ hpc' = IF ok THEN "announce" ELSE OnError
             /\ faults' = IF ok THEN faults ELSE faults + 1
    /\ UNCHANGED <<env, table, activeChannels, noActiveChannel, ci, general, pi,
                   releaseNotesSlice, summaryResult>>
    /\ UNCHANGED limiterVars

\* AnnounceCall that takes a permit of the pool before it posts, as
\* SendToWebhook does.
AnnounceCallRateLimited ==
    /\ hpc = "announce"
    /\ tokens > 0
    /\ tokens' = tokens - 1
    /\ \E ok \in Outcomes :
         /\ calls' = Logged("announce", 0, ok, AnnounceText(cadenceInt, prods))
         /\ hpc' = AfterAnnounce(ok, prods)
         /\ faults' = IF ok THEN faults ELSE faults + 1
    /\ pi' = 1
    /\ UNCHANGED <<env, table, activeChannels, noActiveChannel, ci, general,
                   prods, releaseNotesSlice, summaryResult>>
    /\ UNCHANGED <<closed, elapsed, mu, apc, ref, got, recent>>

\* lines 134-137 and 197-200: notify.Announce.
AnnounceCall ==
    /\ hpc = "announce"
    /\ \E ok \in Outcomes :
         /\ calls' = Logged("announce", 0, ok, AnnounceText(cadenceInt, prods))
         /\ hpc' = AfterAnnounce(ok, prods)
         /\ faults' = IF ok THEN faults ELSE faults + 1
    /\ pi' = 1
    /\ UNCHANGED <<env, table, activeChannels, noActiveChannel, ci, general,
                   prods, releaseNotesSlice, summaryResult>>
    /\ UNCHANGED limiterVars

\* lines 140-149 and 203-212: the notes query of the product.
QueryNotes ==
    /\ hpc = "notes"
    /\ \E ok \in Outcomes :
         LET result == IF general
                       THEN GetReleaseNotes(prods[pi], Range(noActiveChannel), cadenceInt)
                       ELSE GetReleaseNotesbyType(prods[pi], CurType, cadenceInt)
         IN  /\ calls' = Logged("notes", prods[pi], ok, IF ok THEN result ELSE {})
             /\ releaseNotesSlice' = IF ok THEN result ELSE {}
             /\ hpc' = IF ok THEN "summarize" ELSE OnError
             /\ faults' = IF ok THEN faults ELSE faults + 1
    /\ UNCHANGED <<env, table, activeChannels, noActiveChannel, ci, general,
                   prods, pi, summaryResult>>
    /\ UNCHANGED limiterVars

\* lines 153-156 and 216-219: summarize.Summarize.
SummarizeCall ==
    /\ hpc = "summarize"
    /\ \E ok \in Outcomes :
         /\ calls' = Logged("summarize", prods[pi], ok, releaseNotesSlice)
         /\ summaryResult' = IF ok THEN Summarize(prods[pi], releaseNotesSlice)
                             ELSE summaryResult
         /\ hpc' = IF ok THEN "send" ELSE OnError
         /\ faults' = IF ok THEN faults ELSE faults + 1
    /\ UNCHANGED <<env, table, activeChannels, noActiveChannel, ci, general,
                   prods, pi, releaseNotesSlice>>
    /\ UNCHANGED limiterVars

\* lines 160 and 223 with notify.go line 85: SendToWebhook enters acquire.
SendEnter ==
    /\ hpc = "send"
    /\ hpc' = "acquire"
    /\ Call(0)
    /\ UNCHANGED recent
    /\ UNCHANGED <<env, table, activeChannels, noActiveChannel, ci, general,
                   prods, pi, releaseNotesSlice, summaryResult, calls, faults>>

\* notify.go lines 38-44, run by the handler's goroutine.
SendAcquire ==
    /\ hpc = "acquire"
    /\ AcquireStep(0)
    /\ UNCHANGED recent
    /\ UNCHANGED digestVars

\* notify.go lines 88-91 and digest.go lines 161-165, 224-228: the summary is
\* posted; the loop moves to the next product.
SendPost ==
    /\ hpc = "acquire"
    /\ Return(0)
    /\ UNCHANGED recent
    /\ \E ok \in Outcomes :
         /\ calls' = Logged("deliver", prods[pi], ok,
                            SummaryText(prods[pi], summaryResult))
         /\ hpc' = IF ok THEN ProductLoop(pi + 1, prods) ELSE OnError
         /\ pi' = IF ok THEN pi + 1 ELSE pi
         /\ faults' = IF ok THEN faults ELSE faults + 1
    /\ UNCHANGED <<env, table, activeChannels, noActiveChannel, ci, general,
                   prods, releaseNotesSlice, summaryResult>>

\* lines 168-176 and 231-239: the closing message, then the next channel.
CloseCall ==
    /\ hpc = "close"
    /\ LET next == ChannelLoop(activeChannels, ci + 1, general)
       IN  IF CloseDue(prods)
           THEN \E ok \in Outcomes :
                  /\ calls' = Logged("close", 0, ok, ClosingText)
                  /\ faults' = IF ok THEN faults ELSE faults + 1
                  /\ hpc' = IF ok THEN next.pc ELSE OnError
                  /\ ci' = IF ok THEN next.ci ELSE ci
                  /\ general' = IF ok THEN next.general ELSE general
           ELSE /\ hpc' = next.pc
                /\ ci' = next.ci
                /\ general' = next.general
                /\ UNCHANGED <<calls, faults>>
    /\ UNCHANGED <<env, table, activeChannels, noActiveChannel, prods, pi,
                   releaseNotesSlice, summaryResult>>
    /\ UNCHANGED limiterVars

HandlerStep ==
    \/ Configure
    \/ QueryProducts
    \/ AnnounceCall
    \/ QueryNotes
    \/ SummarizeCall
    \/ SendEnter
    \/ SendAcquire
    \/ SendPost
    \/ CloseCall

\* The clock is read only by acquire (notify.go line 39), so time that passes
\* elsewhere in the handler is time that passes before that read, or, after
\* the read, before the receive of line 43 completes.
ClockTick ==
    /\ hpc = "acquire"
    /\ apc[0] \in {"check", "recv"}
    /\ Tick
    /\ UNCHANGED digestVars

DigestNext ==
    \/ HandlerStep
    \/ ClockTick

(* ---------------------------- specifications ---------------------------- *)

\* The limiter under concurrent callers; the orchestrator does not run.
LimiterOnlyInit ==
    /\ LimiterInit
    /\ env = CHOOSE e \in Envs : TRUE
    /\ table = {}
    /\ hpc = "start"
    /\ activeChannels = <<>>
    /\ noActiveChannel = <<>>
    /\ ci = 0
    /\ general = FALSE
    /\ prods = <<>>
    /\ pi = 0
    /\ releaseNotesSlice = {}
    /\ summaryResult = [of |-> 0, from |-> {}]
    /\ calls = <<>>
    /\ faults = 0

SpecLimiter == LimiterOnlyInit /\ [][LimiterNext]_vars

\* A goroutine inside acquire keeps running and the clock keeps advancing;
\* nothing obliges a caller to call SendToWebhook again.
FairLimiter ==
    /\ SpecLimiter
    /\ WF_vars(LimiterTick)
    /\ \A p \in Callers : WF_vars(CallerAcquire(p) \/ CallerReturn(p))

\* One invocation of the digest handler.
Spec == DigestInit /\ [][DigestNext]_vars

\* The handler's goroutine keeps running and the clock keeps advancing.
FairSpec ==
    /\ Spec
    /\ WF_vars(HandlerStep)
    /\ WF_vars(ClockTick)

\* One invocation with GENERAL and all nine category webhooks configured.
AllNineInit ==
    /\ LimiterInit
    /\ env = [PROJECT_ID |-> "set", MODEL |-> "set", MODEL_LOCATION |-> "set",
              CADENCE |-> <<"1">>, GENERAL |-> generalURL,
              channels |-> [i \in ChannelIdx |-> channelURLs[i]]]
    /\ table \in Tables
    /\ hpc = "start"
    /\ activeChannels = <<>>
    /\ noActiveChannel = <<>>
    /\ ci = 0
    /\ general = FALSE
    /\ prods = <<>>
    /\ pi = 0
    /\ releaseNotesSlice = {}
    /\ summaryResult = [of |-> 0, from |-> {}]
    /\ calls = <<>>
    /\ faults = 0

SpecAllNine == AllNineInit /\ [][DigestNext]_vars

(* ---------------------------- query adapters ---------------------------- *)

\* The adapters called on their own, for every lookback window up to
\* MaxLookback and notes published up to one day before the longest window.
QueryAges == 0..(MaxLookback + 1)

\* CADENCE as the decimal text of a window of 0..MaxLookback days.
QueryCadences == {<<d>> : d \in {c \in Digits : DigitVal(c) <= MaxLookback}}

QueryTables ==
    {t \in SUBSET [product : Products, type : NoteTypes, age : QueryAges] :
        Cardinality(t) < MaxNotes}

QueryInit ==
    /\ LimiterInit
    /\ env \in {[PROJECT_ID |-> "set", MODEL |-> "set", MODEL_LOCATION |-> "set",
                 CADENCE |-> c, GENERAL |-> generalURL,
                 channels |-> [i \in ChannelIdx |->
                      IF channelNames[i] \in h THEN channelURLs[i] ELSE ""]] :
                    c \in QueryCadences, h \in HookSets}
    /\ table \in QueryTables
    /\ hpc = "start"
    /\ activeChannels = <<>>
    /\ noActiveChannel = <<>>
    /\ ci = 0
    /\ general = FALSE
    /\ prods = <<>>
    /\ pi = 0
    /\ releaseNotesSlice = {}
    /\ summaryResult = [of |-> 0, from |-> {}]
    /\ calls = <<>>
    /\ faults = 0

\* The record of one adapter call: its filter (a category, or GENERAL for the
\* categories without a webhook), its product argument and its rows.
Answered(op, ch, product, rows) ==
    <<[op |-> op, ch |-> ch, url |-> "", product |-> product, ok |-> TRUE,
       text |-> rows]>>

QueryFrame ==
    UNCHANGED <<env, table, hpc, activeChannels, noActiveChannel, ci, general,
                pi, summaryResult, faults, recent>> /\ UNCHANGED limiterVars

\* products.GetProductsbyReleaseType(projectID, cadence, releaseNotebyType)
ProductsByTypeQuery ==
    /\ \E t \in NoteTypes :
         LET rows == GetProductsbyReleaseType(t, cadenceInt)
         IN  /\ calls' = Answered("products", t, 0, rows)
             /\ prods' = rows
    /\ UNCHANGED releaseNotesSlice
    /\ QueryFrame

\* products.GetProducts(projectID, cadence, noActiveChannel)
ProductsQuery ==
    /\ LET rows == GetProducts(Range(BuildNoActive(1)), cadenceInt)
       IN  /\ calls' = Answered("products", "GENERAL", 0, rows)
           /\ prods' = rows
    /\ UNCHANGED releaseNotesSlice
    /\ QueryFrame

\* releasenotes.GetReleaseNotesbyType(projectID, cadence, product, releaseNotebyType)
NotesByTypeQuery ==
    /\ \E p \in Products, t \in NoteTypes :
         LET rows == GetReleaseNotesbyType(p, t, cadenceInt)
         IN  /\ calls' = Answered("notes", t, p, rows)
             /\ releaseNotesSlice' = rows
    /\ UNCHANGED prods
    /\ QueryFrame

\* releasenotes.GetReleaseNotes(projectID, cadence, product, noActiveChannel)
NotesQuery ==
    /\ \E p \in Products :
         LET rows == GetReleaseNotes(p, Range(BuildNoActive(1)), cadenceInt)
         IN  /\ calls' = Answered("notes", "GENERAL", p, rows)
             /\ releaseNotesSlice' = rows
    /\ UNCHANGED prods
    /\ QueryFrame

QueryNext ==
    \/ ProductsByTypeQuery
    \/ ProductsQuery
    \/ NotesByTypeQuery
    \/ NotesQuery

\* The four query adapters applied to every table and lookback window.
SpecQueries == QueryInit /\ [][QueryNext]_vars

(* ---------------------------- claims ------------------------------------ *)

\* The acquire of caller p is blocked in the receive of line 43.
Blocked(p) == apc[p] = "recv" /\ ~CanReceive(p)

\* C1: in every rolling window of `duration`, at most `limit` acquire calls
\* return.
C1_WindowCeiling == InWindow <= limit

\* C2: once the window has elapsed since the last reset, every acquire that is
\* blocked on the exhausted pool eventually returns, whether or not any other
\* caller invokes acquire afterwards.  (The clock never stops: `elapsed` stays
\* at duration from then on, which is all that acquire could observe.)
C2_BlockedAcquireReturns ==
    \A p \in Callers : (Blocked(p) /\ WindowElapsed) ~> (apc[p] = "acquired")

\* C3: every acquire that returns has removed a permit from the pool, the
\* acquires that were blocked on the exhausted pool when reset replaced it
\* included.  (Stated leniently: a permit of any pool counts.)
C3_EveryAcquireTakesPermit ==
    \A p \in Callers : apc[p] = "acquired" => got[p] # "closed"

\* C4: an invocation in which no external call fails runs to the end and
\* returns (after the Close of its last channel), however many summaries it
\* has to deliver.
C4_InvocationReturns == <>(hpc \in {"returned", "aborted"} \/ faults > 0)

PostOps == {"announce", "deliver", "close"}

CallIdx == 1..Len(calls)

\* GENERAL and the nine category webhook variables are all empty.
NoChannelConfigured ==
    env.GENERAL = "" /\ \A i \in ChannelIdx : env.channels[i] = ""

\* The text is an optionally signed, non-empty string of decimal digits.
IsIntegerText(s) ==
    LET b == IF s # <<>> /\ s[1] \in {"+", "-"} THEN Tail(s) ELSE s
    IN  b # <<>> /\ \A i \in DOMAIN b : b[i] \in Digits

\* PROJECT_ID, MODEL, MODEL_LOCATION or CADENCE is missing, or CADENCE is no
\* integer.
MandatoryMissing ==
    \/ env.PROJECT_ID = ""
    \/ env.MODEL = ""
    \/ env.MODEL_LOCATION = ""
    \/ ~IsIntegerText(env.CADENCE)

\* C5: with no channel configured, or a mandatory variable missing or CADENCE
\* not an integer, the invocation aborts at once: no query, no summarizer call,
\* no webhook POST, no permit acquired.
C5_RejectedConfigHasNoSideEffects ==
    (NoChannelConfigured \/ MandatoryMissing) =>
        /\ hpc \in {"start", "aborted"}
        /\ calls = <<>>
        /\ apc[0] = "idle"
        /\ tokens = limit

C5_Witness ==
    /\ hpc = "aborted"
    /\ NoChannelConfigured
    /\ ~MandatoryMissing

\* The product list the warehouse returned for channel ch (<<>> before that).
ListedFor(ch) ==
    IF \E j \in CallIdx : calls[j].op = "products" /\ calls[j].ch = ch /\ calls[j].ok
    THEN calls[CHOOSE j \in CallIdx :
                 calls[j].op = "products" /\ calls[j].ch = ch /\ calls[j].ok].text
    ELSE <<>>

\* C6: in every channel the Announce precedes every notes query, summarization
\* and summary delivery, and the Close comes only after the summary of every
\* product of the channel has been delivered.
C6_AnnounceFirstCloseLast ==
    /\ \A k \in CallIdx :
         calls[k].op \in {"notes", "summarize", "deliver"} =>
            \E j \in 1..(k - 1) :
               calls[j].op = "announce" /\ calls[j].ch = calls[k].ch
    /\ \A k \in CallIdx :
         calls[k].op = "close" =>
            /\ \A i \in DOMAIN ListedFor(calls[k].ch) :
                 \E j \in 1..(k - 1) :
                    /\ calls[j].op = "deliver"
                    /\ calls[j].ch = calls[k].ch
                    /\ calls[j].product = ListedFor(calls[k].ch)[i]
                    /\ calls[j].ok
            /\ \A j \in (k + 1)..Len(calls) :
                 calls[j].ch = calls[k].ch => calls[j].op \notin {"notes", "summarize", "deliver"}

C6_Witness ==
    \E k \in CallIdx :
       /\ calls[k].op = "close"
       /\ Len(ListedFor(calls[k].ch)) = 2
       /\ calls[k].ch # "GENERAL"

\* The channels of the run: the categories with a webhook, and GENERAL if set.
Configured ==
    {channelNames[i] : i \in {n \in ChannelIdx : env.channels[n] # ""}}
       \cup (IF env.GENERAL # "" THEN {"GENERAL"} ELSE {})

\* The webhook of a channel, from the environment.
OwnURL(ch) ==
    IF ch = "GENERAL" THEN env.GENERAL
    ELSE env.channels[CHOOSE i \in ChannelIdx : channelNames[i] = ch]

Count(op, ch) ==
    Cardinality({k \in CallIdx : calls[k].op = op /\ calls[k].ch = ch})

\* C7: every POST of a channel goes to the channel's own webhook, no Announce,
\* summary delivery or Close is duplicated, and a run without failures that
\* returns has sent each channel exactly one Announce listing all its n
\* products, exactly one summary per product and, when n > 0, exactly one Close.
C7_ExactlyOncePerChannel ==
    /\ \A k \in CallIdx :
         calls[k].op \in PostOps =>
            /\ calls[k].ch \in Configured
            /\ calls[k].url = OwnURL(calls[k].ch)
            /\ \A c \in Configured \ {calls[k].ch} : calls[k].url # OwnURL(c)
    /\ \A k \in CallIdx :
         calls[k].op \in PostOps =>
            \A j \in 1..(k - 1) :
               ~(/\ calls[j].op = calls[k].op
                 /\ calls[j].ch = calls[k].ch
                 /\ calls[j].product = calls[k].product)
    /\ (hpc = "returned" /\ faults = 0) =>
         \A ch \in Configured :
            LET listed == ListedFor(ch)
            IN  /\ Count("products", ch) = 1
                /\ Count("announce", ch) = 1
                /\ \A k \in CallIdx :
                     (calls[k].op = "announce" /\ calls[k].ch = ch) =>
                        calls[k].text = AnnounceText(cadenceInt, listed)
                /\ Count("deliver", ch) = Len(listed)
                /\ \A i \in DOMAIN listed :
                     \E k \in CallIdx :
                        /\ calls[k].op = "deliver"
                        /\ calls[k].ch = ch
                        /\ calls[k].product = listed[i]
                /\ Count("close", ch) = IF Len(listed) > 0 THEN 1 ELSE 0

\* Only GENERAL is set and two products have one in-window note each: the run
\* has returned after one Announce, two deliveries and one Close.
C7_Witness ==
    /\ hpc = "returned"
    /\ faults = 0
    /\ Configured = {"GENERAL"}
    /\ Cardinality(table) = 2
    /\ \A n \in table : n.age <= cadenceInt
    /\ ListedFor("GENERAL") = <<1, 2>>
    /\ Len(calls) = 9

\* C8: a failed product query, notes query, summarization or summary delivery
\* ends the invocation: it is the last external call of the run.
C8_FailureIsTerminal ==
    \A k \in CallIdx :
       (calls[k].op \in {"products", "notes", "summarize", "deliver"} /\ ~calls[k].ok) =>
          /\ k = Len(calls)
          /\ hpc = "fatal"
          /\ apc[0] = "idle"

\* The notes query of the first of two products failed.
C8_Witness ==
    /\ hpc = "fatal"
    /\ Len(prods) = 2
    /\ pi = 1
    /\ calls[Len(calls)].op = "notes"
    /\ ~calls[Len(calls)].ok

\* C9: a failed Announce ends the invocation: no notes query, summarization,
\* summary delivery or Close follows it.
C9_AnnounceFailureHalts ==
    \A k \in CallIdx :
       (calls[k].op = "announce" /\ ~calls[k].ok) => k = Len(calls)

\* C10: a Close is sent only to a channel whose fetched product list was
\* non-empty, and a channel with an empty list is left without a Close.
C10_CloseOnlyWhenProducts ==
    /\ \A k \in CallIdx :
         calls[k].op = "close" =>
            \E j \in 1..(k - 1) :
               /\ calls[j].op = "products"
               /\ calls[j].ch = calls[k].ch
               /\ calls[j].ok
               /\ Len(calls[j].text) > 0
    /\ \A ch \in Configured :
         (Count("products", ch) > 0 /\ Len(ListedFor(ch)) = 0) => Count("close", ch) = 0

\* A run that returned after a category channel with products and a GENERAL
\* channel without any.
C10_Witness ==
    /\ hpc = "returned"
    /\ Count("close", "GENERAL") = 0
    /\ Count("announce", "GENERAL") = 1
    /\ \E ch \in Configured : Count("close", ch) = 1

\* The handler is between the product query of channel ch and its Announce.
AnnouncePending(ch) == hpc = "announce" /\ CurType = ch

\* C11: Announce called with an empty product list still performs exactly one
\* POST to the channel's webhook, and the text it sends is empty: no count, no
\* number of days, no product name.
C11_EmptyListStillAnnounced ==
    /\ \A k \in CallIdx :
         (calls[k].op = "announce" /\ Len(ListedFor(calls[k].ch)) = 0) =>
            /\ calls[k].text = <<>>
            /\ calls[k].url = OwnURL(calls[k].ch)
    /\ \A ch \in Configured :
         (/\ \E j \in CallIdx :
                calls[j].op = "products" /\ calls[j].ch = ch /\ calls[j].ok
          /\ Len(ListedFor(ch)) = 0
          /\ ~AnnouncePending(ch)) => Count("announce", ch) = 1

\* A category channel whose product query returned no row has been announced.
C11_Witness ==
    \E k \in CallIdx :
       /\ calls[k].op = "announce"
       /\ calls[k].ok
       /\ calls[k].ch # "GENERAL"
       /\ calls[k - 1].op = "products"
       /\ calls[k - 1].text = <<>>
       /\ calls[k].text = <<>>

\* The categories whose webhook variable is empty.
Unassigned ==
    {channelNames[i] : i \in {n \in ChannelIdx : env.channels[n] = ""}}

\* The categories a channel reports: its own, or for GENERAL the unassigned ones.
CategoriesOf(ch) == IF ch = "GENERAL" THEN Unassigned ELSE {ch}

\* The products with at least one note of the channel's categories that was
\* published within the lookback window.
ExpectedProducts(ch) ==
    {p \in Products :
        \E n \in table : /\ n.product = p
                         /\ n.type \in CategoriesOf(ch)
                         /\ n.age <= cadenceInt}

\* C12: the product list of a category channel holds, once each, exactly the
\* products with an in-window note of that category, and the list of the general
\* channel exactly the products with an in-window note of an unassigned
\* category; a product with notes of both kinds is in both lists, once in each.
C12_ProductListsPerChannel ==
    \A k \in CallIdx :
       (calls[k].op = "products" /\ calls[k].ok) =>
          /\ Range(calls[k].text) = ExpectedProducts(calls[k].ch)
          /\ \A i, j \in DOMAIN calls[k].text :
                calls[k].text[i] = calls[k].text[j] => i = j

\* BREAKING_CHANGE and GENERAL are configured, FEATURE is not, and a product
\* has an in-window note of each type: both lists have been fetched.
C12_Witness ==
    /\ Configured = {"BREAKING_CHANGE", "GENERAL"}
    /\ \E p \in Products :
          /\ \E n \in table : n.product = p /\ n.type = "BREAKING_CHANGE" /\ n.age <= cadenceInt
          /\ \E n \in table : n.product = p /\ n.type = "FEATURE" /\ n.age <= cadenceInt
          /\ Cardinality({i \in DOMAIN ListedFor("BREAKING_CHANGE") :
                             ListedFor("BREAKING_CHANGE")[i] = p}) = 1
          /\ Cardinality({i \in DOMAIN ListedFor("GENERAL") :
                             ListedFor("GENERAL")[i] = p}) = 1

\* The products with an in-window note of a category without a webhook.
HasUnassignedNote == ExpectedProducts("GENERAL")

\* C13 as stated: a product with an in-window note of a non-configured category
\* is in the general channel's product list and in no category channel's list.
C13_UnassignedOnlyInGeneral ==
    \A k \in CallIdx :
       (calls[k].op = "products" /\ calls[k].ok) =>
          \A p \in HasUnassignedNote :
             IF calls[k].ch = "GENERAL"
             THEN p \in Range(calls[k].text)
             ELSE p \notin Range(calls[k].text)

\* C13, amended: a product with an in-window note of a non-configured category
\* is in the general channel's product list; it is in a category channel's
\* list only if it also has an in-window note of that channel's category, and
\* the notes fetched for it there are of that category only.
C13_UnassignedRoutedToGeneral ==
    \A k \in CallIdx :
       calls[k].ok =>
          /\ (calls[k].op = "products" /\ calls[k].ch = "GENERAL") =>
                \A p \in HasUnassignedNote : p \in Range(calls[k].text)
          /\ (calls[k].op = "products" /\ calls[k].ch # "GENERAL") =>
                \A p \in HasUnassignedNote \cap Range(calls[k].text) :
                   \E n \in table : /\ n.product = p
                                    /\ n.type = calls[k].ch
                                    /\ n.age <= cadenceInt
          /\ (calls[k].op = "notes" /\ calls[k].ch # "GENERAL") =>
                \A n \in calls[k].text : n.type \notin Unassigned

\* A product with an in-window FEATURE note (no webhook) and an in-window
\* BREAKING_CHANGE note (webhook set) has had its notes fetched in the
\* BREAKING_CHANGE channel and is listed for GENERAL.
C13_Witness ==
    \E j, k \in CallIdx :
       /\ calls[j].op = "notes" /\ calls[j].ok /\ calls[j].ch = "BREAKING_CHANGE"
       /\ calls[k].op = "products" /\ calls[k].ok /\ calls[k].ch = "GENERAL"
       /\ calls[j].product \in Range(calls[k].text)
       /\ calls[j].product \in HasUnassignedNote
       /\ "FEATURE" \in Unassigned

\* The notes an external call was about: the rows a notes query returned, the
\* prompt of a summarization, the notes behind a delivered summary.
NotesOf(c) ==
    CASE c.op \in {"notes", "summarize"} -> c.text
      [] c.op = "deliver" -> c.text[2].from
      [] OTHER -> {}

\* C14: with at least one category channel configured and GENERAL not, the
\* notes of the categories without a webhook are ignored: no product or notes
\* query is made for those categories, and no Announce, summary or Close about
\* them is posted.
C14_UnassignedIgnoredWithoutGeneral ==
    (atLeastOneSpecificChannelSet /\ env.GENERAL = "") =>
        \A k \in CallIdx :
           /\ calls[k].ch \notin Unassigned \cup {"GENERAL"}
           /\ calls[k].url # ""
           /\ \A n \in NotesOf(calls[k]) : n.type \notin Unassigned
           /\ calls[k].op \in {"products", "announce"} =>
                 \A p \in Range(ListedFor(calls[k].ch)) :
                    \E n \in table : n.product = p /\ n.type \notin Unassigned

\* BREAKING_CHANGE has a webhook, GENERAL and FEATURE have none, an in-window
\* FEATURE note exists, and the run has returned after posting to the
\* BREAKING_CHANGE channel.
C14_Witness ==
    /\ hpc = "returned"
    /\ env.GENERAL = ""
    /\ Configured = {"BREAKING_CHANGE"}
    /\ \E n \in table : n.type = "FEATURE" /\ n.age <= cadenceInt
    /\ Count("close", "BREAKING_CHANGE") = 1

\* A step taken while the handler is at an Announce or at a closing message
\* completes that call and leaves the limiter alone.
BypassStep ==
    hpc \in {"announce", "close"} =>
        /\ hpc' # hpc \/ ci' # ci \/ general' # general
        /\ UNCHANGED <<tokens, closed, elapsed, mu, apc, ref, got>>

\* C15: Announce and ClosingMessage are not rate-limited: whatever the state of
\* the permit pool, exhausted included, the call is not held back, takes no
\* permit, and leaves the pool, the last-reset time and every acquire in
\* progress as they were.
C15_AnnounceCloseBypassLimiter ==
    /\ [](hpc = "announce" => ENABLED AnnounceCall)
    /\ [](hpc = "close" => ENABLED CloseCall)
    /\ [][BypassStep]_vars

\* An Announce has just been posted while the pool was exhausted.
C15_Witness ==
    /\ tokens = 0
    /\ ~closed
    /\ calls # <<>>
    /\ calls[Len(calls)].op = "announce"
    /\ calls[Len(calls)].ok
    /\ hpc = "notes"

\* The notes of the table that pass the category filter of an adapter call
\* (and, for a notes query, are of the product asked for).
Matching(c) ==
    {n \in table : /\ n.type \in CategoriesOf(c.ch)
                   /\ c.op = "notes" => n.product = c.product}

ActiveAt(name) ==
    {j \in DOMAIN activeChannels : activeChannels[j].ReleasetNoteType = name}

NoActiveAt(name) == {j \in DOMAIN noActiveChannel : noActiveChannel[j] = name}

\* C17: once the channel list is built, each of the nine category labels is in
\* exactly one of the two lists: in activeChannels, with its own webhook URL
\* and its fixed name, iff its webhook variable is non-empty, otherwise in
\* noActiveChannel.  So the notes summarized for a category channel are of
\* that category only, those summarized for the general channel are of
\* categories without a webhook only, and no note is summarized into two
\* channels.
C17_LabelsPartitioned ==
    /\ hpc \notin {"start", "aborted"} =>
          /\ \A i \in ChannelIdx :
                IF env.channels[i] # ""
                THEN /\ Cardinality(ActiveAt(channelNames[i])) = 1
                     /\ NoActiveAt(channelNames[i]) = {}
                     /\ \A j \in ActiveAt(channelNames[i]) :
                           activeChannels[j].WebhookURL = env.channels[i]
                ELSE /\ ActiveAt(channelNames[i]) = {}
                     /\ Cardinality(NoActiveAt(channelNames[i])) = 1
          /\ Len(activeChannels) + Len(noActiveChannel) = Len(channelNames)
    /\ \A k \in CallIdx :
          calls[k].op = "summarize" =>
             /\ \A n \in calls[k].text :
                   IF calls[k].ch = "GENERAL"
                   THEN \E i \in ChannelIdx :
                           channelNames[i] = n.type /\ env.channels[i] = ""
                   ELSE n.type = calls[k].ch
             /\ \A j \in 1..(k - 1) :
                   (calls[j].op = "summarize" /\ calls[j].ch # calls[k].ch) =>
                      calls[j].text \cap calls[k].text = {}

\* One category has a webhook and the other has not: notes of the same product
\* have been summarized for the category channel and for the general channel.
C17_Witness ==
    /\ Len(activeChannels) = 1
    /\ Len(noActiveChannel) = Len(channelNames) - 1
    /\ \E j, k \in CallIdx :
          /\ calls[j].op = "summarize" /\ calls[j].ch # "GENERAL"
          /\ calls[k].op = "summarize" /\ calls[k].ch = "GENERAL"
          /\ calls[j].product = calls[k].product

\* Caller p is inside reset, between taking the lock and refilling the pool.
Refilling(p) == apc[p] \in {"close", "make", "fill"}

\* C18: the pool is refilled once per elapsed window: a reset replaces and
\* refills the pool only when a full window has passed since the last reset,
\* however many concurrent acquire calls saw the window elapsed.
C18_RefillOncePerWindow ==
    \A p \in Callers : Refilling(p) => WindowElapsed

\* GENERAL and all nine category webhook variables are set.
AllConfigured ==
    env.GENERAL # "" /\ \A i \in ChannelIdx : env.channels[i] # ""

\* C19: with GENERAL and all nine category webhooks configured the unassigned
\* category set is empty and so is the general channel's product list; the
\* general webhook still receives one Announce POST, with empty text, and no
\* summary and no Close.
C19_AllNineGeneralAnnouncesEmpty ==
    AllConfigured =>
       /\ hpc \notin {"start", "aborted"} => noActiveChannel = <<>>
       /\ \A k \in CallIdx :
             calls[k].ch = "GENERAL" =>
                /\ calls[k].op \in {"products", "announce"}
                /\ calls[k].text = <<>>
                /\ calls[k].op = "announce" => calls[k].url = env.GENERAL
       /\ Count("announce", "GENERAL") <= 1
       /\ hpc = "returned" => Count("announce", "GENERAL") = 1

\* The run has returned: two category channels delivered summaries and were
\* closed, and the general webhook got its one, empty, Announce.
C19_Witness ==
    /\ AllConfigured
    /\ hpc = "returned"
    /\ Count("close", "BREAKING_CHANGE") = 1
    /\ Count("close", "FEATURE") = 1
    /\ calls[Len(calls)].op = "announce"
    /\ calls[Len(calls)].ch = "GENERAL"
    /\ calls[Len(calls)].ok
    /\ calls[Len(calls)].text = <<>>

=============================================================================
